---- MODULE Spec2Model ----
(***************************************************************************)
(* vupdated: the daemon supervisor (run_daemon), the per-dial update task  *)
(* (DialManager::run), the hotplug watcher and the watch channel that      *)
(* pauses and resumes the dial managers.                                   *)
(*                                                                         *)
(* All tasks run on one current-thread runtime (bin/vupdated.rs): a task   *)
(* owns the thread from the moment it is polled until it reaches an await  *)
(* that is not ready.  `cpu` names the task that is between two awaits;    *)
(* every other task can only take a step while cpu = "free".               *)
(***************************************************************************)
EXTENDS Integers, Sequences, FiniteSets, TLC

----------------------------------------------------------------------------
(* Bounds of the model *)

\* how many signals can be waiting for the supervisor at one time
MaxPending == 1
\* how far consecutive sensor failures are counted where they are counted
StreakCap == 5
\* the invocations of the operation one retried call is followed for
MaxAttempts == 4

----------------------------------------------------------------------------
(* Data *)

\* keys of Config.dials (the names Metric::dial_name gives)
Names == {"CPU Load", "Memory Usage", "Swap Usage"}

\* the metric gen_config stores under each name
MetricOf(name) ==
    CASE name = "CPU Load" -> "CpuLoad"
      [] name = "Memory Usage" -> "Mem"
      [] name = "Swap Usage" -> "Swap"

\* DialConfig.index values and the indexes dial.status() reports
DialIndexes == {0, 1, 2}

DialConfig(index, metric, dial_easing, backlight_easing) ==
    [index |-> index, metric |-> metric,
     dial_easing |-> dial_easing, backlight_easing |-> backlight_easing]

\* Config: dials is a map name -> DialConfig; of retries the model keeps
\* whether max_elapsed_time is Some (TRUE) or None (FALSE)
Config(dials, max_elapsed_time) ==
    [dials |-> dials, max_elapsed_time |-> max_elapsed_time]

\* the value of `config` before Config::load has returned one
NoConfig == Config([n \in {} |-> DialConfig(0, "Mem", FALSE, FALSE)], FALSE)

\* the config files Config::load finds on disk in the daemon runs
DiskConfigs ==
    { Config([n \in {"CPU Load", "Memory Usage"} |->
                 IF n = "CPU Load" THEN DialConfig(0, "CpuLoad", TRUE, TRUE)
                                   ELSE DialConfig(1, "Mem", FALSE, FALSE)], TRUE),
      Config([n \in {"Memory Usage"} |-> DialConfig(0, "Mem", FALSE, TRUE)], FALSE),
      Config([n \in {"Memory Usage", "Swap Usage"} |->
                 DialConfig(2, MetricOf(n), FALSE, FALSE)], TRUE) }

\* the result of client.list_dials() followed by dial.status() on each dial:
\* the set of indexes found, or an error of either call
ListError == [ok |-> FALSE, dials |-> {}, error |-> "none"]
\* the errors of client.list_dials() and dial.status() the runs draw from
ListErrorKinds == {"Request", "BuildRequest"}
Listings ==
    {[ok |-> TRUE, dials |-> d, error |-> "none"] : d \in SUBSET DialIndexes}
    \cup {[ListError EXCEPT !.error = e] : e \in ListErrorKinds}

\* the orders in which `for (name, config) in &self.dials` can visit a HashMap
Orders(S) ==
    { o \in [1..Cardinality(S) -> S] : \A i, j \in 1..Cardinality(S) : i # j => o[i] # o[j] }

----------------------------------------------------------------------------
(* Config::spawn_dial_managers *)

\* the `if let Some(dial) = dials_by_index.remove(&config.index)` of one entry
TakeDialKeep(dials_by_index, index) == dials_by_index
TakeDial(dials_by_index, index) == dials_by_index \ {index}

\* the loop over self.dials: the names a DialManager is spawned for
RECURSIVE spawn_loop(_, _, _, _)
spawn_loop(order, dials, dials_by_index, spawned) ==
    IF order = <<>> THEN spawned
    ELSE LET name == Head(order)
             index == dials[name].index
         IN IF index \in dials_by_index
            THEN spawn_loop(Tail(order), dials, TakeDial(dials_by_index, index),
                            spawned \cup {name})
            ELSE spawn_loop(Tail(order), dials, dials_by_index, spawned)

\* miette::ensure!(dials_spawned > 0, "no dials are connected!")
EnsureSpawnedAlways(dials_spawned) == TRUE
EnsureSpawned(dials_spawned) == dials_spawned > 0

SpawnErr(error) == [ok |-> FALSE, spawned |-> {}, error |-> error]

spawn_dial_managersLenient(config, listing, order) ==
    LET spawned == spawn_loop(order, config.dials, listing.dials, {})
    IN [ok |-> TRUE, spawned |-> spawned, error |-> "none"]
spawn_dial_managers(config, listing, order) ==
    IF ~listing.ok THEN SpawnErr("list_dials failed")
    ELSE LET spawned == spawn_loop(order, config.dials, listing.dials, {})
         IN IF EnsureSpawned(Cardinality(spawned))
            THEN [ok |-> TRUE, spawned |-> spawned, error |-> "none"]
            ELSE SpawnErr("no dials are connected!")

----------------------------------------------------------------------------
(* State *)

VARIABLES
    supPc,      \* run_daemon: "start", "load", "listing", "select" or "exited"
    exit,       \* what run_daemon returned: "running" until it returns
    config,     \* the Config the last Config::load returned
    listed,     \* the listing the last spawn_dial_managers got
    epoch,      \* the parity of the number of reloads handled so far
    mgr,        \* the JoinSet: name -> the DialManager task spawned for it
    running,    \* the value in the watch channel
    txAlive,    \* the watch::Sender has not been dropped
    hotplug,    \* the hotplug task: "off", "connecting", "listening", "restarting", "ended"
    pending,    \* signals delivered to the process and not yet received
    cpu,        \* "free", or the name of the DialManager that is between awaits
    disk,       \* the config files Config::load can find in this run
    streakCap,  \* how far consecutive sensor failures are counted (0: not counted)
    trace,      \* each task keeps the last response it received (history)
    call        \* the function call of the specifications of single functions

\* what no step of the daemon changes
env == <<disk, streakCap, trace, call>>

vars == <<supPc, exit, config, listed, epoch, mgr, running, txAlive, hotplug,
          pending, cpu, env>>

NoCall == [fn |-> "none"]

\* the calls of a DialManager that go through retry()
ConfigOps == {"set_name", "set_dial_easing", "set_backlight_easing", "set_backlight", "set_image"}
Ops == ConfigOps \cup {"resume_backlight", "set"}

\* the Dial method a retried call invokes
DialCall(op) == IF op = "resume_backlight" THEN "set_backlight" ELSE op

\* an empty slot of the JoinSet
\* no response received yet
NoResponse == [op |-> "none", class |-> "none", returned |-> FALSE]

NoTask ==
    [pc |-> "none", op |-> "none", config |-> DialConfig(0, "Mem", FALSE, FALSE),
     max_elapsed_time |-> FALSE, epoch |-> 0, error |-> "none",
     notified |-> FALSE, susp |-> TRUE, needBacklight |-> FALSE,
     streak |-> 0, pushed |-> FALSE, last |-> NoResponse]

\* tasks.spawn(dial_manager.run()): the task exists and has not been polled yet
NewTask(name, cfg, g) ==
    [NoTask EXCEPT !.pc = "start", !.config = cfg.dials[name],
                   !.max_elapsed_time = cfg.max_elapsed_time, !.epoch = g]

Live(t) == t.pc \notin {"none", "failed"}

\* the state in which run_daemon is entered
InitWith(configs, cap) ==
    /\ supPc = "start"
    /\ exit = "running"
    /\ config = NoConfig
    /\ listed = ListError
    /\ epoch = 0
    /\ mgr = [n \in Names |-> NoTask]
    /\ running = TRUE
    /\ txAlive = TRUE
    /\ pending = {}
    /\ cpu = "free"
    /\ disk = configs
    /\ streakCap = cap

Init ==
    /\ InitWith(DiskConfigs, 0)
    /\ trace = FALSE
    /\ hotplug \in {"off", "connecting"}
    /\ call = NoCall

----------------------------------------------------------------------------
(* signal.rs: SignalListener::next_signal *)

Signals == {"SIGHUP", "SIGINT", "SIGTERM", "SIGQUIT"}

SignalActionAlwaysReload(sig) == "Reload"
SignalAction(sig) == IF sig = "SIGHUP" THEN "Reload" ELSE "Shutdown"

\* the kernel delivers a signal to the process; this needs no task to run
DeliverSignal(sig) ==
    /\ supPc # "exited"
    /\ sig \notin pending
    /\ Cardinality(pending) < MaxPending
    /\ pending' = pending \cup {sig}
    /\ UNCHANGED <<supPc, exit, config, listed, epoch, mgr, running, txAlive, hotplug, cpu, env>>

----------------------------------------------------------------------------
(* run_daemon *)

\* tasks.shutdown().await: every task is aborted and removed from the JoinSet
ShutdownTasksNone(tasks) == tasks
ShutdownTasks(tasks) == [n \in DOMAIN tasks |-> NoTask]

\* run_daemon returns: `tasks` is dropped, which aborts what is left in it
Return(result) ==
    /\ supPc' = "exited"
    /\ exit' = result
    /\ mgr' = [n \in Names |-> NoTask]

\* Config::load(&config_path)?, at startup and after the shutdown of a reload
LoadConfig ==
    /\ supPc \in {"start", "load"}
    /\ cpu = "free"
    /\ \/ \E c \in disk :
            /\ config' = c
            /\ supPc' = "listing"
            /\ UNCHANGED <<exit, mgr>>
       \/ /\ Return("load failed")
          /\ UNCHANGED config
    /\ UNCHANGED <<listed, epoch, running, txAlive, hotplug, pending, cpu, env>>

\* config.spawn_dial_managers(&client, &running, &mut tasks).await ... ?
SpawnDialManagers ==
    /\ supPc = "listing"
    /\ cpu = "free"
    /\ \E listing \in Listings, order \in Orders(DOMAIN config.dials) :
          LET r == spawn_dial_managers(config, listing, order)
          IN /\ listed' = listing
             /\ IF r.ok
                THEN /\ mgr' = [n \in Names |->
                                  IF n \in r.spawned THEN NewTask(n, config, epoch) ELSE mgr[n]]
                     /\ supPc' = "select"
                     /\ UNCHANGED exit
                ELSE Return(r.error)
    /\ UNCHANGED <<config, epoch, running, txAlive, hotplug, pending, cpu, env>>

\* fault: a reload that also writes true to the watch channel
ReloadResuming(sig) ==
    /\ supPc = "select"
    /\ cpu = "free"
    /\ sig \in pending
    /\ SignalAction(sig) = "Reload"
    /\ pending' = pending \ {sig}
    /\ mgr' = ShutdownTasks(mgr)
    /\ epoch' = 1 - epoch
    /\ supPc' = "load"
    /\ running' = TRUE
    /\ UNCHANGED <<exit, config, listed, txAlive, hotplug, cpu, env>>

\* select!: signal = signals.next_signal() => SignalAction::Reload
Reload(sig) ==
    /\ supPc = "select"
    /\ cpu = "free"
    /\ sig \in pending
    /\ SignalAction(sig) = "Reload"
    /\ pending' = pending \ {sig}
    /\ mgr' = ShutdownTasks(mgr)
    /\ epoch' = 1 - epoch
    /\ supPc' = "load"
    /\ UNCHANGED <<exit, config, listed, running, txAlive, hotplug, cpu, env>>

\* fault: a shutdown signal acted upon in the middle of a reload
ShutdownAnywhere(sig) ==
    /\ supPc \in {"select", "load", "listing"}
    /\ cpu = "free"
    /\ sig \in pending
    /\ SignalAction(sig) = "Shutdown"
    /\ pending' = pending \ {sig}
    /\ Return("ok")
    /\ UNCHANGED <<config, listed, epoch, running, txAlive, hotplug, cpu, env>>

\* select!: signal = signals.next_signal() => SignalAction::Shutdown => break
Shutdown(sig) ==
    /\ supPc = "select"
    /\ cpu = "free"
    /\ sig \in pending
    /\ SignalAction(sig) = "Shutdown"
    /\ pending' = pending \ {sig}
    /\ Return("ok")
    /\ UNCHANGED <<config, listed, epoch, running, txAlive, hotplug, cpu, env>>

\* select!: join = tasks.join_next() => Some(error) => error...?
\* (DialManager::run has no Ok return, and the JoinSet is never empty here:
\* the two `break`s of this arm are not reachable)
\* fault: the failed task is dropped from the set and the loop goes on
JoinNextContinue ==
    /\ supPc = "select"
    /\ cpu = "free"
    /\ \E n \in Names :
          /\ mgr[n].pc = "failed"
          /\ mgr' = [mgr EXCEPT ![n] = NoTask]
    /\ UNCHANGED <<supPc, exit, config, listed, epoch, running, txAlive, hotplug,
                   pending, cpu, env>>

JoinNext ==
    /\ supPc = "select"
    /\ cpu = "free"
    /\ \E n \in Names : mgr[n].pc = "failed"
    /\ Return("a dial manager task failed")
    /\ UNCHANGED <<config, listed, epoch, running, txAlive, hotplug, pending, cpu, env>>

----------------------------------------------------------------------------
(* DialManager::run *)

\* vu_api::api::Error
ApiErrors ==
    {"BuildUrl", "BuildRequest", "InvalidBacklight", "InvalidValue",
     "Request", "DecodeJson", "ServerHttp", "Server"}
Responses == {"Ok"} \cup ApiErrors

backoff_errorBuildOnly(error) ==
    IF error \in {"BuildUrl", "BuildRequest"} THEN "permanent" ELSE "transient"
backoff_error(error) ==
    IF error \in {"BuildUrl", "BuildRequest", "InvalidBacklight", "InvalidValue"}
    THEN "permanent" ELSE "transient"

retrySleep(error, max_elapsed_time, elapsed) == "sleep"
\* retry(): what backoff::future::retry_notify does with a failed attempt.
\* `elapsed` says that max_elapsed_time, when there is one, has run out.
retry(error, max_elapsed_time, elapsed) ==
    IF backoff_error(error) = "permanent" THEN "return"
    ELSE IF max_elapsed_time /\ elapsed THEN "return"
    ELSE "sleep"

\* what a sensor read gives: a reading Percent::new accepts, an Err of the
\* sensor, or a reading Percent::new rejects
SensorOutcomes == {"ok", "err", "invalid"}

\* the first poll of a retried call: the request of one attempt goes out
Issue(t, op) ==
    [t EXCEPT !.pc = "call", !.op = op, !.susp = TRUE,
              !.needBacklight = IF DialCall(op) = "set_backlight" THEN FALSE ELSE @]

FailedSwallowed(t, error) == [t EXCEPT !.pc = "loop_top", !.op = "none"]
\* run() returns Err
Failed(t, error) == [t EXCEPT !.pc = "failed", !.op = "none", !.error = error]

\* the top of `loop`; the task has not awaited yet
LoopTop(t) == [t EXCEPT !.pc = "loop_top", !.op = "none"]

\* a sensor read returned Err: `continue`
SensorFailed(t) ==
    LoopTop([t EXCEPT !.streak = IF @ < streakCap THEN @ + 1 ELSE @])

\* retry(.., || dial.set(value)) returned Ok
Pushed(t) == [t EXCEPT !.streak = 0, !.pushed = streakCap > 0]

\* `let value = match metric`; the task has not awaited yet
Sampling(t) == [t EXCEPT !.pc = "sample", !.op = "none"]

\* Metric::img_file(&self).is_some()
img_file(metric) ==
    metric \in {"Swap", "CpuLoad", "CpuTemp", "Mem", "DiskUsage", "Battery"}

ConfigureBacklightEasing(t) ==
    IF t.config.backlight_easing THEN Issue(t, "set_backlight_easing")
    ELSE Issue(t, "set_backlight")

ConfigureDialEasingSkip(t) == Issue(t, "set_backlight")
ConfigureDialEasing(t) ==
    IF t.config.dial_easing THEN Issue(t, "set_dial_easing")
    ELSE ConfigureBacklightEasing(t)

AfterPushTick(t) == [Pushed(t) EXCEPT !.pc = "tick", !.op = "none"]
\* `if metric != Metric::CpuLoad { interval.tick().await; }` after the push
AfterPush(t) ==
    IF t.config.metric # "CpuLoad"
    THEN [Pushed(t) EXCEPT !.pc = "tick", !.op = "none"]
    ELSE LoopTop(Pushed(t))

\* the code that follows a retried call that returned Ok
AfterOk(t) ==
    CASE t.op = "set_name" -> ConfigureDialEasing(t)
      [] t.op = "set_dial_easing" -> ConfigureBacklightEasing(t)
      [] t.op = "set_backlight_easing" -> Issue(t, "set_backlight")
      [] t.op = "set_backlight" ->
            IF img_file(t.config.metric) THEN Issue(t, "set_image") ELSE LoopTop(t)
      [] t.op = "set_image" -> LoopTop(t)
      [] t.op = "resume_backlight" -> Sampling(t)
      [] t.op = "set" -> AfterPush(t)

PauseBlocks(t) ==
    IF running THEN Issue(t, "resume_backlight")
    ELSE [t EXCEPT !.pc = "wait_changed", !.notified = FALSE, !.susp = TRUE]
\* `while !(*running.borrow_and_update()) { running.changed().await...? }`
\* and the set_backlight that follows it
Pause(t) ==
    IF running THEN Issue(t, "resume_backlight")
    ELSE IF ~txAlive THEN Failed(t, "watch channel closed")
    ELSE [t EXCEPT !.pc = "wait_changed", !.notified = FALSE, !.susp = TRUE]

\* `if !(*running.borrow()) { ... }` at the top of the loop
CheckRunning(t) ==
    IF ~running THEN Pause(t)
    ELSE Sampling([t EXCEPT !.susp = FALSE])

\* the arm of `match metric` up to its first await, `continue` or push
Sample(t, outcome) ==
    IF t.config.metric = "CpuLoad"
    THEN IF outcome = "err" THEN SensorFailed(t)
         ELSE [t EXCEPT !.pc = "tick_cpu", !.susp = TRUE]
    ELSE CASE outcome = "ok" -> Issue(t, "set")
           [] outcome = "err" -> SensorFailed(t)
           [] outcome = "invalid" -> Failed(t, "invalid percent")

\* the CpuLoad arm after interval.tick().await: load.done()
LoadDone(t, outcome) ==
    CASE outcome = "ok" -> Issue(t, "set")
      [] outcome = "err" -> SensorFailed(t)
      [] outcome = "invalid" -> Failed(t, "invalid percent")

\* the task is between two awaits
OnCpu(t) == t.pc \in {"loop_top", "sample"}

\* task `n` runs on to the state `t`
Poll(n, t) ==
    /\ mgr' = [mgr EXCEPT ![n] = t]
    /\ cpu' = IF OnCpu(t) THEN n ELSE "free"
    /\ UNCHANGED <<supPc, exit, config, listed, epoch, running, txAlive, hotplug,
                   pending, env>>

\* fault: a task that waits for the signal before it configures its dial
StartPaused(n) ==
    /\ cpu = "free"
    /\ mgr[n].pc = "start"
    /\ Poll(n, IF running THEN Issue(mgr[n], "set_name")
               ELSE [mgr[n] EXCEPT !.pc = "wait_changed", !.notified = FALSE])

\* the first poll of the task: up to the first attempt of set_name
Start(n) ==
    /\ cpu = "free"
    /\ mgr[n].pc = "start"
    /\ Poll(n, Issue(mgr[n], "set_name"))

\* history: the response `resp` to the call t.op, how backoff_error classes
\* it, and whether retry() returns on it
Received(t, resp, elapsed) ==
    IF ~trace THEN t
    ELSE [t EXCEPT !.last =
            [op |-> t.op,
             class |-> IF resp = "Ok" THEN "Ok" ELSE backoff_error(resp),
             returned |-> resp = "Ok" \/ retry(resp, t.max_elapsed_time, elapsed) # "sleep"]]

\* the response to an attempt arrives
Response(n) ==
    /\ cpu = "free"
    /\ mgr[n].pc = "call"
    /\ \E resp \in Responses, elapsed \in BOOLEAN :
          LET t == Received(mgr[n], resp, elapsed)
          IN IF resp = "Ok" THEN Poll(n, AfterOk(t))
             ELSE IF retry(resp, t.max_elapsed_time, elapsed) = "sleep"
                  THEN Poll(n, [t EXCEPT !.pc = "backoff"])
                  ELSE Poll(n, Failed(t, "retry"))

\* the backoff sleep is over: the next attempt
BackoffElapsed(n) ==
    /\ cpu = "free"
    /\ mgr[n].pc = "backoff"
    /\ Poll(n, Issue(mgr[n], mgr[n].op))

\* interval.tick() after the push completes
Tick(n) ==
    /\ cpu = "free"
    /\ mgr[n].pc = "tick"
    /\ Poll(n, LoopTop(mgr[n]))

\* interval.tick() inside the CpuLoad arm completes
TickCpu(n) ==
    /\ cpu = "free"
    /\ mgr[n].pc = "tick_cpu"
    /\ \E outcome \in SensorOutcomes : Poll(n, LoadDone(mgr[n], outcome))

\* running.changed() completes: Ok on a value not seen yet, else Err once
\* the sender is gone
Changed(n) ==
    /\ cpu = "free"
    /\ mgr[n].pc = "wait_changed"
    /\ mgr[n].notified \/ ~txAlive
    /\ IF mgr[n].notified THEN Poll(n, Pause(mgr[n]))
       ELSE Poll(n, Failed(mgr[n], "watch channel closed"))

TopOfLoop(n) ==
    /\ cpu = n
    /\ mgr[n].pc = "loop_top"
    /\ Poll(n, CheckRunning(mgr[n]))

ReadSensor(n) ==
    /\ cpu = n
    /\ mgr[n].pc = "sample"
    /\ \E outcome \in SensorOutcomes :
          /\ mgr[n].config.metric = "CpuLoad" => outcome # "invalid"
          /\ Poll(n, Sample(mgr[n], outcome))

----------------------------------------------------------------------------
(* hotplug.rs: run *)

USB_VENDOR_ID == "ID_USB_VENDOR_ID"
USB_MODEL_ID == "ID_USB_VENDOR_ID"
DIAL_HUB_USB_VENDOR_ID == "0403"
DIAL_HUB_USB_MODEL_ID == "6015"

\* a udev event of the tty subsystem: its type and the two USB properties of
\* its device ("absent" when the device has no such property)
EventTypes == {"Add", "Remove", "Change", "Bind"}
UdevEvents ==
    [event_type : EventTypes,
     vendor : {DIAL_HUB_USB_VENDOR_ID, "absent"},
     model : {DIAL_HUB_USB_MODEL_ID, "absent"}]

\* device.property_value(key)
property_value(event, key) ==
    CASE key = "ID_USB_VENDOR_ID" -> event.vendor
      [] key = "ID_USB_MODEL_ID" -> event.model

matches(event) ==
    /\ property_value(event, USB_VENDOR_ID) = DIAL_HUB_USB_VENDOR_ID
    /\ property_value(event, USB_MODEL_ID) # DIAL_HUB_USB_MODEL_ID

\* the daemon has reached its first await, so spawned tasks get polled
Started == supPc \notin {"start", "exited"}

\* running.send(run): the value is stored and every receiver waiting in
\* changed() is woken.  A manager alive when the value goes from false to
\* true owes the dial a backlight reset.
set_running(run) ==
    /\ running' = run
    /\ mgr' = [n \in Names |->
                IF mgr[n].pc \in {"none", "failed"} THEN mgr[n]
                ELSE [mgr[n] EXCEPT
                        !.notified = IF mgr[n].pc = "wait_changed" THEN TRUE ELSE @,
                        !.needBacklight = IF run /\ ~running THEN TRUE ELSE @]]

\* the connections to dbus and systemd and the udev monitor are set up
HotplugConnect ==
    /\ Started
    /\ cpu = "free"
    /\ hotplug = "connecting"
    /\ \/ hotplug' = "listening" /\ UNCHANGED txAlive
       \/ hotplug' = "ended" /\ txAlive' = FALSE
    /\ UNCHANGED <<supPc, exit, config, listed, epoch, mgr, running, pending, cpu, env>>

\* history, kept in the runs that start with call.fn = "udev": the last
\* event that got past `if !matches { continue; }`
Seen(event) ==
    IF call.fn = "udev" /\ matches(event) THEN [call EXCEPT !.event = event] ELSE call

\* one round of `while let Some(event) = monitor.next().await`
HotplugEvent(event) ==
    /\ Started
    /\ cpu = "free"
    /\ hotplug = "listening"
    /\ IF ~matches(event) THEN UNCHANGED <<mgr, running, hotplug>>
       ELSE CASE event.event_type = "Remove" ->
                   set_running(FALSE) /\ UNCHANGED hotplug
              [] event.event_type \in {"Add", "Change"} ->
                   hotplug' = "restarting" /\ UNCHANGED <<mgr, running>>
              [] OTHER -> UNCHANGED <<mgr, running, hotplug>>
    /\ call' = Seen(event)
    /\ UNCHANGED <<supPc, exit, config, listed, epoch, txAlive, pending, cpu,
                   disk, streakCap, trace>>

\* manager.restart_unit(...).await returns
HotplugRestarted ==
    /\ Started
    /\ cpu = "free"
    /\ hotplug = "restarting"
    /\ \/ set_running(TRUE) /\ hotplug' = "listening" /\ UNCHANGED txAlive
       \/ hotplug' = "ended" /\ txAlive' = FALSE /\ UNCHANGED <<mgr, running>>
    /\ UNCHANGED <<supPc, exit, config, listed, epoch, pending, cpu, env>>

\* monitor.next() returns None: the event stream ended
HotplugStreamEnd ==
    /\ Started
    /\ cpu = "free"
    /\ hotplug = "listening"
    /\ hotplug' = "ended"
    /\ txAlive' = FALSE
    /\ UNCHANGED <<supPc, exit, config, listed, epoch, mgr, running, pending, cpu, env>>

----------------------------------------------------------------------------
(* The daemon *)

Next ==
    \/ \E sig \in Signals : DeliverSignal(sig)
    \/ LoadConfig
    \/ SpawnDialManagers
    \/ \E sig \in Signals : Reload(sig)
    \/ \E sig \in Signals : Shutdown(sig)
    \/ JoinNext
    \/ \E n \in Names : Start(n)
    \/ \E n \in Names : Response(n)
    \/ \E n \in Names : BackoffElapsed(n)
    \/ \E n \in Names : Tick(n)
    \/ \E n \in Names : TickCpu(n)
    \/ \E n \in Names : Changed(n)
    \/ \E n \in Names : TopOfLoop(n)
    \/ \E n \in Names : ReadSensor(n)
    \/ HotplugConnect
    \/ \E event \in UdevEvents : HotplugEvent(event)
    \/ HotplugRestarted
    \/ HotplugStreamEnd

Spec == Init /\ [][Next]_vars

----------------------------------------------------------------------------
(* The daemon with one dial, counting consecutive sensor failures *)

StreakConfigs ==
    { Config([n \in {"Memory Usage"} |-> DialConfig(0, "Mem", FALSE, FALSE)], TRUE),
      Config([n \in {"CPU Load"} |-> DialConfig(0, "CpuLoad", FALSE, FALSE)], FALSE) }

StreakInit ==
    /\ InitWith(StreakConfigs, StreakCap)
    /\ trace = FALSE
    /\ hotplug \in {"off", "connecting"}
    /\ call = NoCall

StreakSpec == StreakInit /\ [][Next]_vars

----------------------------------------------------------------------------
(* The daemon with one dial, each task keeping its last response *)

TraceConfigs ==
    { Config([n \in {"Memory Usage"} |-> DialConfig(0, "Mem", TRUE, FALSE)], TRUE),
      Config([n \in {"CPU Load"} |-> DialConfig(0, "CpuLoad", FALSE, TRUE)], FALSE) }

TraceInit ==
    /\ InitWith(TraceConfigs, 0)
    /\ trace = TRUE
    /\ hotplug \in {"off", "connecting"}
    /\ call = NoCall

TraceSpec == TraceInit /\ [][Next]_vars

----------------------------------------------------------------------------
(* The daemon with one dial and the hotplug task, keeping the last udev     *)
(* event the hotplug task acted on                                          *)

HotplugInit ==
    /\ InitWith(StreakConfigs, 0)
    /\ trace = FALSE
    /\ hotplug = "connecting"
    /\ call = [fn |-> "udev",
               event |-> [event_type |-> "none", vendor |-> "absent", model |-> "absent"]]

HotplugSpec == HotplugInit /\ [][Next]_vars

----------------------------------------------------------------------------
(* spawn_dial_managers on its own: every config over Names and DialIndexes, *)
(* every listing, every iteration order of the config's map                 *)

SpawnConfigs ==
    UNION { { Config([n \in D |-> DialConfig(f[n], MetricOf(n), FALSE, FALSE)], TRUE) :
                f \in [D -> DialIndexes] } : D \in SUBSET Names }

SpawnInit ==
    /\ InitWith({}, 0)
    /\ trace = FALSE
    /\ hotplug = "off"
    /\ \E c \in SpawnConfigs, l \in Listings :
          \E o \in Orders(DOMAIN c.dials) :
             call = [fn |-> "spawn_dial_managers", config |-> c, listing |-> l,
                     order |-> o, returned |-> FALSE, result |-> SpawnErr("none")]

SpawnCall ==
    /\ call.fn = "spawn_dial_managers"
    /\ ~call.returned
    /\ call' = [call EXCEPT !.returned = TRUE,
                            !.result = spawn_dial_managers(call.config, call.listing,
                                                           call.order)]
    /\ UNCHANGED <<supPc, exit, config, listed, epoch, mgr, running, txAlive, hotplug,
                   pending, cpu, disk, streakCap, trace>>

SpawnSpec == SpawnInit /\ [][SpawnCall]_vars

----------------------------------------------------------------------------
(* retry() on its own: backoff::future::retry_notify driving the           *)
(* ExponentialBackoff that `backoff.build()` makes, for two DialManagers    *)

\* Option<Duration>; durations are whole numbers of one time unit
None == [some |-> FALSE, v |-> 0]
Some(v) == [some |-> TRUE, v |-> v]

\* an f64 factor n/d
Ratio(n, d) == [n |-> n, d |-> d]

RetryConfig(initial_backoff, jitter, multiplier, max_backoff, max_elapsed_time) ==
    [initial_backoff |-> initial_backoff, jitter |-> jitter, multiplier |-> multiplier,
     max_backoff |-> max_backoff, max_elapsed_time |-> max_elapsed_time]

\* the `retries` tables of the retry runs
RetryConfigs ==
    { RetryConfig(4, Ratio(0, 1), Ratio(3, 2), 9, None),
      RetryConfig(4, Ratio(1, 2), Ratio(2, 1), 9, Some(12)),
      RetryConfig(4, Ratio(0, 1), Ratio(2, 1), 6, None),
      RetryConfig(2, Ratio(0, 1), Ratio(1, 1), 9, None) }

\* ExponentialBackoffBuilder::new(): backoff::default::MULTIPLIER is 1.5
DEFAULT_MULTIPLIER == Ratio(3, 2)

\* RetryConfig::backoff_builder: the builder is given the initial interval,
\* the randomization factor, the max interval and the max elapsed time
backoff_builder(retries) ==
    [initial_interval |-> retries.initial_backoff,
     randomization_factor |-> retries.jitter,
     multiplier |-> DEFAULT_MULTIPLIER,
     max_interval |-> retries.max_backoff,
     max_elapsed_time |-> retries.max_elapsed_time]

\* backoff.build() in retry(): a new ExponentialBackoff at its initial interval
buildAtMax(builder) ==
    [current_interval |-> builder.max_interval,
     randomization_factor |-> builder.randomization_factor,
     multiplier |-> builder.multiplier,
     max_interval |-> builder.max_interval,
     max_elapsed_time |-> builder.max_elapsed_time]
build(builder) ==
    [current_interval |-> builder.initial_interval,
     randomization_factor |-> builder.randomization_factor,
     multiplier |-> builder.multiplier,
     max_interval |-> builder.max_interval,
     max_elapsed_time |-> builder.max_elapsed_time]

\* ExponentialBackoff::increment_current_interval
increment_current_interval(b) ==
    IF b.current_interval * b.multiplier.n > b.max_interval * b.multiplier.d
    THEN b.max_interval
    ELSE (b.current_interval * b.multiplier.n) \div b.multiplier.d

\* the two ends of the interval the randomized sleep is drawn from
Randoms == {"low", "high"}
get_random_value_from_interval(randomization_factor, random, current_interval) ==
    LET delta == (current_interval * randomization_factor.n) \div randomization_factor.d
    IN IF random = "low" THEN current_interval - delta ELSE current_interval + delta

\* ExponentialBackoff::next_backoff at `elapsed` since the call began
next_backoffAlways(b, elapsed, random) ==
    Some(get_random_value_from_interval(b.randomization_factor, random, b.current_interval))
next_backoff(b, elapsed, random) ==
    IF b.max_elapsed_time.some /\ elapsed > b.max_elapsed_time.v THEN None
    ELSE LET randomized_interval ==
                 get_random_value_from_interval(b.randomization_factor, random,
                                                b.current_interval)
         IN IF b.max_elapsed_time.some
               /\ elapsed + randomized_interval > b.max_elapsed_time.v
            THEN None
            ELSE Some(randomized_interval)


\* the DialManagers of the retry runs
RetryTasks == {"CPU Load", "Memory Usage"}

\* how long one invocation of the operation takes
OpTimes == {0, 3}

\* a DialManager seen through its retried calls: `backoff` is the builder it
\* was spawned with, `eb` the ExponentialBackoff of its current call, `prior`
\* says that an earlier call of this DialManager had to sleep
RetryTask(retries) ==
    [pc |-> "idle", backoff |-> backoff_builder(retries),
     eb |-> build(backoff_builder(retries)), elapsed |-> 0, attempts |-> 0,
     sleeps |-> <<>>, sleeping |-> 0, error |-> "none", class |-> "none",
     result |-> "none", prior |-> FALSE]

RetryInit ==
    /\ InitWith({}, 0)
    /\ trace = FALSE
    /\ hotplug = "off"
    /\ \E retries \in RetryConfigs :
          call = [fn |-> "retry", retries |-> retries,
                  task |-> [m \in RetryTasks |-> RetryTask(retries)]]

RetryStep(m, t) ==
    /\ call' = [call EXCEPT !.task[m] = t]
    /\ UNCHANGED <<supPc, exit, config, listed, epoch, mgr, running, txAlive, hotplug,
                   pending, cpu, disk, streakCap, trace>>

\* retry(&backoff, name, f) is called: backoff.build(), then the first f()
RetryCall(m) ==
    LET t == call.task[m]
    IN /\ call.fn = "retry"
       /\ \/ t.pc = "idle"
          \/ t.pc = "returned" /\ t.result = "Ok"
       /\ RetryStep(m, [t EXCEPT !.pc = "attempt", !.eb = build(t.backoff),
                                 !.elapsed = 0, !.attempts = 1, !.sleeps = <<>>,
                                 !.sleeping = 0, !.error = "none", !.class = "none",
                                 !.result = "none",
                                 !.prior = @ \/ t.sleeps # <<>>])

\* get_elapsed_time(): the clock is read only against max_elapsed_time
Clock(b, now) == IF b.max_elapsed_time.some THEN now ELSE 0

\* retry_notify: a permanent error is returned; a transient one is returned
\* when next_backoff gives None, and slept on otherwise
retry_notifyRetryAll(class, next) == IF ~next.some THEN "return" ELSE "sleep"
retry_notifyGiveUp(class, next) == "return"
retry_notify(class, next) ==
    IF class = "permanent" THEN "return"
    ELSE IF ~next.some THEN "return"
    ELSE "sleep"

\* what retry() does with the result `resp` of an invocation that took
\* `took`: return it, or sleep for the next backoff
RetryAttempt(t, resp, took, random) ==
    LET now == Clock(t.eb, t.elapsed + took)
        class == backoff_error(resp)
        next == next_backoff(t.eb, now, random)
    IN IF resp = "Ok"
       THEN [t EXCEPT !.pc = "returned", !.result = "Ok", !.elapsed = now]
       ELSE IF retry_notify(class, next) = "return"
       THEN [t EXCEPT !.pc = "returned", !.result = "Err", !.elapsed = now,
                      !.error = resp, !.class = class,
                      !.sleeping = IF class = "permanent" THEN @
                                   ELSE get_random_value_from_interval(
                                            t.eb.randomization_factor, random,
                                            t.eb.current_interval)]
       ELSE [t EXCEPT !.pc = "sleep", !.elapsed = now, !.error = resp, !.class = class,
                      !.sleeping = next.v,
                      !.sleeps = Append(@, t.eb.current_interval),
                      !.eb.current_interval = increment_current_interval(t.eb)]

\* one invocation of the operation completes
RetryResponse(m) ==
    LET t == call.task[m]
    IN /\ call.fn = "retry"
       /\ t.pc = "attempt"
       /\ \E resp \in Responses, took \in OpTimes, random \in Randoms :
             LET u == RetryAttempt(t, resp, took, random)
             IN /\ u.pc = "sleep" => t.attempts < MaxAttempts
                /\ RetryStep(m, u)

\* the backoff sleep is over: the operation is invoked again
RetrySleepElapsed(m) ==
    LET t == call.task[m]
    IN /\ call.fn = "retry"
       /\ t.pc = "sleep"
       /\ RetryStep(m, [t EXCEPT !.pc = "attempt",
                                 !.elapsed = Clock(t.eb, @ + t.sleeping),
                                 !.attempts = @ + 1, !.error = "none",
                                 !.class = "none"])

RetryNext ==
    \/ \E m \in RetryTasks : RetryCall(m)
    \/ \E m \in RetryTasks : RetryResponse(m)
    \/ \E m \in RetryTasks : RetrySleepElapsed(m)

RetrySpec == RetryInit /\ [][RetryNext]_vars

----------------------------------------------------------------------------
(* The value of one sample: Percent::new and the arms of `match metric`     *)
(* from the sensor's reading to the value handed to dial.set                *)

MaxTotal == 200
MaxReading == 300

\* Result<Percent, PercentError>; `pub struct Percent(u8)` is the tuple <<value>>
PercentOk(value) == [ok |-> TRUE, percent |-> <<value>>, error |-> "none"]
PercentErr(value) == [ok |-> FALSE, percent |-> <<value>>, error |-> "PercentError"]

Percent_newAny(value) == PercentOk(value)
\* Percent::new(value: u8)
Percent_new(value) ==
    IF value > 100 THEN PercentErr(value) ELSE PercentOk(value)

\* impl TryFrom<u8> for Percent
try_from(value) == Percent_new(value)

\* impl From<Percent> for u8: `fn from(Percent(value): Percent) -> Self { value }`
u8_from(percent) == percent[1]

\* `x as u8` for a u64 that is the difference a - b: the low byte, also of
\* the difference that wrapped around 2^64 (a multiple of 2^8)
u64_as_u8(x) == ((x % 256) + 256) % 256

\* `x as u8` for a float given in tenths: truncated toward zero and
\* saturated at the ends of u8
float_as_u8(tenths) ==
    IF tenths < 0 THEN 0
    ELSE IF tenths \div 10 > 255 THEN 255
    ELSE tenths \div 10

\* what one pass through `match metric` does
Push(value) == [kind |-> "push", value |-> value, error |-> "none"]
Continue == [kind |-> "continue", value |-> 0, error |-> "none"]
ReturnErr(error) == [kind |-> "return", value |-> 0, error |-> error]
Panic(error) == [kind |-> "panic", value |-> 0, error |-> error]
NoResult == [kind |-> "none", value |-> 0, error |-> "none"]

PercentOrReturnClamped(value) == Push(IF value > 100 THEN 100 ELSE value)
\* `Percent::new(x as u8)?`, the value then going to dial.set
PercentOrReturn(value) ==
    LET r == Percent_new(value)
    IN IF r.ok THEN Push(u8_from(r.percent)) ELSE ReturnErr(r.error)

\* the Mem, Swap and DiskUsage arms:
\*   let percent_free = free / (total / 100);
\*   let percent_used = 100 - percent_free;
\*   Percent::new(percent_used as u8)?
\* on u64; `overflow_checks` is the build's setting for arithmetic overflow
percent_used(total, free, overflow_checks) ==
    IF total \div 100 = 0 THEN Panic("attempt to divide by zero")
    ELSE LET percent_free == free \div (total \div 100)
         IN IF percent_free > 100 /\ overflow_checks
            THEN Panic("attempt to subtract with overflow")
            ELSE PercentOrReturn(u64_as_u8(100 - percent_free))

IntegerMetrics == {"Mem", "Swap", "DiskUsage"}
FloatMetrics == {"CpuLoad", "CpuTemp", "Battery"}

\* the arm of `match metric` for a sensor that answered `sensor`
sample(c) ==
    IF c.sensor = "Err" THEN Continue
    ELSE IF c.metric \in IntegerMetrics
         THEN percent_used(c.total, c.free, c.overflow_checks)
         ELSE PercentOrReturn(float_as_u8(c.reading))

\* the readings: total > 0 and 0 <= free <= total in bytes; percent, degrees
\* or load in tenths, by half units from -2.0 to MaxReading
ValueInit ==
    LET Args(metric, sensor, total, free, reading, overflow_checks) ==
            [fn |-> "sample", metric |-> metric, sensor |-> sensor, total |-> total,
             free |-> free, reading |-> reading, overflow_checks |-> overflow_checks,
             returned |-> FALSE, result |-> NoResult]
    IN /\ InitWith({}, 0)
       /\ trace = FALSE
       /\ hotplug = "off"
       /\ \/ \E m \in IntegerMetrics, oc \in BOOLEAN :
                \E t \in 1..MaxTotal : \E f \in 0..t :
                   call = Args(m, "Ok", t, f, 0, oc)
          \/ \E m \in FloatMetrics, oc \in BOOLEAN :
                \E x \in (0 - 4)..(2 * MaxReading) :
                   call = Args(m, "Ok", 0, 0, x * 5, oc)
          \/ \E m \in IntegerMetrics \cup FloatMetrics, oc \in BOOLEAN :
                call = Args(m, "Err", 0, 0, 0, oc)
          \/ \E f \in {"Percent::new", "try_from"}, v \in 0..255 :
                call = [fn |-> f, value |-> v, returned |-> FALSE,
                        result |-> PercentErr(0)]

ValueReturn(result) ==
    /\ ~call.returned
    /\ call' = [call EXCEPT !.returned = TRUE, !.result = result]
    /\ UNCHANGED <<supPc, exit, config, listed, epoch, mgr, running, txAlive, hotplug,
                   pending, cpu, disk, streakCap, trace>>

SampleCall ==
    /\ call.fn = "sample"
    /\ ValueReturn(sample(call))

PercentCall ==
    /\ call.fn \in {"Percent::new", "try_from"}
    /\ ValueReturn(IF call.fn = "try_from" THEN try_from(call.value)
                   ELSE Percent_new(call.value))

ValueNext == SampleCall \/ PercentCall

ValueSpec == ValueInit /\ [][ValueNext]_vars

----------------------------------------------------------------------------
(* MultiError: from_vec on its own, and one accumulator made by             *)
(* with_max_errors under push_error and clear                               *)

MaxErrors == 3
MaxVec == 4
MaxCalls == 6

\* the miette::Report values pushed
Reports == {"Request", "Server"}

RECURSIVE Tuples(_, _)
\* the sequences of length n over S
Tuples(S, n) ==
    IF n = 0 THEN {<<>>}
    ELSE {Append(t, x) : t \in Tuples(S, n - 1), x \in S}

\* struct MultiError of lib.rs
MultiError(msg, errors, max_errors) ==
    [msg |-> msg, errors |-> errors, max_errors |-> max_errors]
NoMultiError == MultiError("", <<>>, None)

\* MultiError::with_max_errors(msg, max_errors)
with_max_errors(msg, max_errors) == MultiError(msg, <<>>, Some(max_errors))

\* Result<(), MultiError> of push_error, with the accumulator it leaves
PushResult(self, ok, err) == [self |-> self, ok |-> ok, err |-> err]

push_errorOver(self, error) ==
    LET errors == Append(self.errors, error)
    IN IF self.max_errors.some /\ Len(errors) > self.max_errors.v
       THEN PushResult([self EXCEPT !.errors = <<>>], FALSE,
                       MultiError(self.msg, errors, None))
       ELSE PushResult([self EXCEPT !.errors = errors], TRUE, NoMultiError)
\* MultiError::push_error(&mut self, error); mem::take leaves an empty Vec
push_error(self, error) ==
    LET errors == Append(self.errors, error)
    IN IF self.max_errors.some /\ Len(errors) >= self.max_errors.v
       THEN PushResult([self EXCEPT !.errors = <<>>], FALSE,
                       MultiError(self.msg, errors, None))
       ELSE PushResult([self EXCEPT !.errors = errors], TRUE, NoMultiError)

\* MultiError::clear(&mut self)
clear(self) == [self EXCEPT !.errors = <<>>]

\* miette::Result<()> of from_vec: Ok, the one Report, or a MultiError
\* made into a Report
VecOk == [ok |-> TRUE, kind |-> "none", error |-> "none", multi |-> NoMultiError]
VecErr(error) == [ok |-> FALSE, kind |-> "single", error |-> error, multi |-> NoMultiError]
VecMulti(multi) == [ok |-> FALSE, kind |-> "multi", error |-> "none", multi |-> multi]

from_vecFirst(errors, msg) ==
    IF Len(errors) = 0 THEN VecOk ELSE VecErr(errors[1])
\* MultiError::from_vec(errors, msg) of lib.rs
from_vec(errors, msg) ==
    IF Len(errors) = 0 THEN VecOk
    ELSE IF Len(errors) = 1 THEN VecErr(errors[1])
    ELSE VecMulti(MultiError(msg, errors, None))

\* MultiError::from_vec(errors, msg) of dialctl.rs, on its own
\* struct MultiError { msg, errors }
dialctl_from_vec(errors, msg) ==
    IF Len(errors) = 0 THEN VecOk
    ELSE IF Len(errors) = 1 THEN VecErr(errors[1])
    ELSE VecMulti([msg |-> msg, errors |-> errors])

\* `last` is the history of the last call on the accumulator: the call, its
\* argument, the errors pushed since creation, the last clear or the last
\* Err before it, and what it returned

MultiErrorInit ==
    /\ InitWith({}, 0)
    /\ trace = FALSE
    /\ hotplug = "off"
    /\ \/ \E n \in 0..MaxVec, f \in {"from_vec", "dialctl::from_vec"},
             msg \in {"failed to set some dial configurations",
                      "could not get info for all dials"} :
             \E errors \in Tuples(Reports, n) :
                call = [fn |-> f, errors |-> errors, msg |-> msg,
                        returned |-> FALSE, result |-> VecOk]
       \/ \E k \in 1..MaxErrors, msg \in {"failed to set some dial configurations",
                                           "could not get info for all dials"} :
             call = [fn |-> "MultiError", self |-> with_max_errors(msg, k),
                     calls |-> 0, since |-> <<>>,
                     last |-> [op |-> "none", arg |-> "none", before |-> <<>>,
                               ok |-> TRUE, err |-> NoMultiError]]

MultiErrorStep(c) ==
    /\ call' = c
    /\ UNCHANGED <<supPc, exit, config, listed, epoch, mgr, running, txAlive, hotplug,
                   pending, cpu, disk, streakCap, trace>>

FromVecCall ==
    /\ call.fn \in {"from_vec", "dialctl::from_vec"}
    /\ ~call.returned
    /\ MultiErrorStep([call EXCEPT
          !.returned = TRUE,
          !.result = IF call.fn = "from_vec" THEN from_vec(call.errors, call.msg)
                     ELSE dialctl_from_vec(call.errors, call.msg)])

PushErrorCall(error) ==
    /\ call.fn = "MultiError"
    /\ call.calls < MaxCalls
    /\ LET r == push_error(call.self, error)
       IN MultiErrorStep([call EXCEPT
             !.self = r.self,
             !.calls = @ + 1,
             !.since = IF r.ok THEN Append(@, error) ELSE <<>>,
             !.last = [op |-> "push_error", arg |-> error, before |-> call.since,
                       ok |-> r.ok, err |-> r.err]])

ClearCall ==
    /\ call.fn = "MultiError"
    /\ call.calls < MaxCalls
    /\ MultiErrorStep([call EXCEPT
          !.self = clear(call.self),
          !.calls = @ + 1,
          !.since = <<>>,
          !.last = [op |-> "clear", arg |-> "none", before |-> call.since,
                    ok |-> TRUE, err |-> NoMultiError]])

MultiErrorNext ==
    \/ FromVecCall
    \/ \E error \in Reports : PushErrorCall(error)
    \/ ClearCall

MultiErrorSpec == MultiErrorInit /\ [][MultiErrorNext]_vars

----------------------------------------------------------------------------
(* dialctl set: SetValues::run for one selected dial                        *)

\* dial::Backlight
Backlight(red, green, blue) == [red |-> red, green |-> green, blue |-> blue]

\* the backlight the dial's status reports
StatusBacklight == Backlight(1, 2, 3)

\* the requests sent to the dial and the errors collected so far
SetAcc(calls, errors) == [calls |-> calls, errors |-> errors]

\* `if let Some(value) = self.value { if let Err(e) = dial.set(value)... }`
SetValue(c) ==
    IF ~c.value.some THEN SetAcc(<<>>, <<>>)
    ELSE SetAcc(<<[op |-> "set", value |-> c.value.v]>>,
                IF c.set_ok THEN <<>> ELSE <<"failed to set value">>)

\* `backlight.red = red` and so on for the channels given
Channels(c, backlight) ==
    Backlight(IF c.red.some THEN c.red.v ELSE backlight.red,
              IF c.green.some THEN c.green.v ELSE backlight.green,
              IF c.blue.some THEN c.blue.v ELSE backlight.blue)

SetBacklightSkip(c, acc) == acc
\* `if self.red.is_some() || self.green.is_some() || self.blue.is_some()`:
\* the status select_dial returned, or else dial.status(), then
\* dial.set_backlight
SetBacklight(c, acc) ==
    IF ~(c.red.some \/ c.green.some \/ c.blue.some) THEN acc
    ELSE LET asked == IF c.status THEN acc.calls
                      ELSE Append(acc.calls, [op |-> "status"])
         IN IF ~c.status /\ ~c.status_ok
            THEN SetAcc(asked, Append(acc.errors, "failed to set backlight"))
            ELSE SetAcc(Append(asked, [op |-> "set_backlight",
                                       backlight |-> Channels(c, StatusBacklight)]),
                        IF c.backlight_ok THEN acc.errors
                        ELSE Append(acc.errors, "failed to set backlight for dial"))

\* `if let Some(image) = self.image`
SetImage(c, acc) ==
    IF c.image THEN SetAcc(acc.calls, Append(acc.errors,
                                             "setting images is not yet implemented"))
    ELSE acc

\* SetValues::run after select_dial returned the dial
SetValues_run(c) ==
    LET acc == SetImage(c, SetBacklight(c, SetValue(c)))
    IN [calls |-> acc.calls, errors |-> acc.errors,
        result |-> dialctl_from_vec(acc.errors, "failed to set some dial configurations")]

\* the arguments (at least one of them is required), whether select_dial
\* returned a status with the dial, and how the dial answers each request
SetInit ==
    /\ InitWith({}, 0)
    /\ trace = FALSE
    /\ hotplug = "off"
    /\ \E value \in {None, Some(42)}, image \in BOOLEAN, red \in {None, Some(50)},
          green \in {None, Some(60)}, blue \in {None, Some(70)},
          status, set_ok, status_ok, backlight_ok \in BOOLEAN :
          /\ value.some \/ image \/ red.some \/ green.some \/ blue.some
          /\ call = [fn |-> "set", value |-> value, image |-> image, red |-> red,
                     green |-> green, blue |-> blue, status |-> status,
                     set_ok |-> set_ok, status_ok |-> status_ok,
                     backlight_ok |-> backlight_ok, returned |-> FALSE,
                     calls |-> <<>>, errors |-> <<>>, result |-> VecOk]

SetCall ==
    /\ call.fn = "set"
    /\ ~call.returned
    /\ LET r == SetValues_run(call)
       IN call' = [call EXCEPT !.returned = TRUE, !.calls = r.calls,
                               !.errors = r.errors, !.result = r.result]
    /\ UNCHANGED <<supPc, exit, config, listed, epoch, mgr, running, txAlive, hotplug,
                   pending, cpu, disk, streakCap, trace>>

SetSpec == SetInit /\ [][SetCall]_vars

----------------------------------------------------------------------------
(* gen_config on its own: every list of requested metrics, every listing    *)
(* and every outcome of the status calls                                    *)

MaxMetrics == 3
MaxDials == 3

\* the metrics requested on the command line
GenMetrics == {"CpuLoad", "Mem", "Swap"}

\* Metric::dial_name
dial_name(metric) ==
    CASE metric = "Battery" -> "Battery Remaining"
      [] metric = "DiskUsage" -> "Disk Usage"
      [] metric = "CpuLoad" -> "CPU Load"
      [] metric = "CpuTemp" -> "CPU Temperature"
      [] metric = "Swap" -> "Swap Usage"
      [] metric = "Mem" -> "Memory Usage"

\* what dial.status() returns for one listed dial: its index, or an error
Statuses ==
    {[ok |-> TRUE, index |-> i] : i \in DialIndexes} \cup {[ok |-> FALSE, index |-> 0]}

\* Config::default().dials
NoDials == [n \in {} |-> DialConfig(0, "Mem", FALSE, FALSE)]

insertKeep(map, key, value) ==
    [k \in DOMAIN map \cup {key} |-> IF k \in DOMAIN map THEN map[k] ELSE value]
\* HashMap::insert: the value replaces the one already under the key
insert(map, key, value) ==
    [k \in DOMAIN map \cup {key} |-> IF k = key THEN value ELSE map[k]]

\* miette::Result<()> of gen_config, with the config written to config_path
GenOk(dials) == [ok |-> TRUE, error |-> "none", written |-> TRUE, dials |-> dials]
GenErr(error) == [ok |-> FALSE, error |-> error, written |-> FALSE, dials |-> NoDials]

RECURSIVE gen_loop(_, _, _)
\* `for (metric, (dial, info)) in metrics.into_iter().zip(dials)`
gen_loop(metrics, dials, config_dials) ==
    IF metrics = <<>> \/ dials = <<>> THEN GenOk(config_dials)
    ELSE IF ~Head(dials).ok THEN GenErr("failed to get status")
    ELSE gen_loop(Tail(metrics), Tail(dials),
                  insert(config_dials, dial_name(Head(metrics)),
                         DialConfig(Head(dials).index, Head(metrics), TRUE, TRUE)))

\* gen_config(client, config_path, metrics)
gen_config(metrics, listing) ==
    IF ~listing.ok THEN GenErr("list_dials failed")
    ELSE gen_loop(metrics, listing.dials, NoDials)

GenInit ==
    /\ InitWith({}, 0)
    /\ trace = FALSE
    /\ hotplug = "off"
    /\ \E m \in 1..MaxMetrics, d \in 0..MaxDials, listed_ok \in BOOLEAN :
          \E metrics \in Tuples(GenMetrics, m), dials \in Tuples(Statuses, d) :
             /\ ~listed_ok => dials = <<>>
             /\ call = [fn |-> "gen_config", metrics |-> metrics,
                        listing |-> [ok |-> listed_ok, dials |-> dials],
                        returned |-> FALSE, result |-> GenErr("none")]

GenCall ==
    /\ call.fn = "gen_config"
    /\ ~call.returned
    /\ call' = [call EXCEPT !.returned = TRUE,
                            !.result = gen_config(call.metrics, call.listing)]
    /\ UNCHANGED <<supPc, exit, config, listed, epoch, mgr, running, txAlive, hotplug,
                   pending, cpu, disk, streakCap, trace>>

GenSpec == GenInit /\ [][GenCall]_vars

----------------------------------------------------------------------------
(* Properties *)

\* the step in which manager n sends a set-value request: the first attempt
\* of retry(.., || dial.set(value)) or an attempt after a backoff sleep
IssuesPush(n) ==
    /\ mgr[n].pc # "call"
    /\ mgr'[n].pc = "call"
    /\ mgr'[n].op = "set"

NoTasks == \A n \in Names : mgr[n] = NoTask

\* C1: no manager sends a set-value request while the watch channel holds
\* false.
C1_NoPushWhilePaused ==
    [][\A n \in Names : IssuesPush(n) => running]_vars

\* C2: a manager that was alive when the watch channel went from false to
\* true sends no set-value request before it has sent a set-backlight
\* request.
C2_BacklightBeforePush ==
    [][\A n \in Names : IssuesPush(n) => ~mgr[n].needBacklight]_vars

\* the number of consecutive sensor failures the specification calls fatal
SensorFailureThreshold == 4

\* C3: a manager whose sensor has failed on every sample, SensorFailureThreshold
\* times or more, has terminated with an error.
C3_FatalAtThreshold ==
    \A n \in Names :
        (~mgr[n].pushed /\ mgr[n].streak >= SensorFailureThreshold)
            => mgr[n].pc = "failed"

Matching(cfg, listing) ==
    {n \in DOMAIN cfg.dials : cfg.dials[n].index \in listing.dials}

\* C5 as stated: a task is spawned for every config entry whose index is the
\* index of a listed dial, and for no other.
C5_OneTaskPerMatchingEntry ==
    (call.returned /\ call.listing.ok)
        => call.result.spawned = Matching(call.config, call.listing)

\* C5, amended: tasks are spawned only for matching entries, and for every
\* listed index that some entry names exactly one task is spawned (entries
\* that share an index share one dial: one of them gets the task); the spawn
\* fails only if nothing was spawned.  When no two entries share an index,
\* every matching entry gets its task.
C5_OneTaskPerMatchedDial ==
    (call.returned /\ call.listing.ok) =>
        LET dials == call.config.dials
            spawned == call.result.spawned
            matching == Matching(call.config, call.listing)
        IN /\ spawned \subseteq matching
           /\ \A i \in call.listing.dials :
                 Cardinality({n \in spawned : dials[n].index = i})
                    = IF \E n \in matching : dials[n].index = i THEN 1 ELSE 0
           /\ call.result.ok <=> matching # {}
           /\ (\A a, b \in DOMAIN dials : a # b => dials[a].index # dials[b].index)
                 => spawned = matching

\* config indexes {0,1,2}, dials {0,2}: two tasks, and the spawn succeeds
C5_Witness ==
    /\ call.fn = "spawn_dial_managers"
    /\ call.returned
    /\ {call.config.dials[n].index : n \in DOMAIN call.config.dials} = {0, 1, 2}
    /\ call.listing = [ok |-> TRUE, dials |-> {0, 2}, error |-> "none"]
    /\ Cardinality(call.result.spawned) = 2
    /\ call.result.ok

\* C6: when no entry of the loaded config matches a listed dial, the spawn
\* has returned "no dials are connected!", no task exists and run_daemon has
\* returned that error; the daemon is in its main loop only after a spawn
\* that matched something.
C6_NoDialsIsFatal ==
    /\ (listed.ok /\ Matching(config, listed) = {} /\ supPc # "listing")
          => (supPc = "exited" /\ exit = "no dials are connected!" /\ NoTasks)
    /\ exit = "no dials are connected!"
          => (listed.ok /\ Matching(config, listed) = {})

C6_Witness ==
    /\ exit = "no dials are connected!"
    /\ epoch = 0
    /\ DOMAIN config.dials # {}
    /\ listed.dials # {}

\* C7: while a reload is between its shutdown and its spawn no task exists;
\* in the main loop every task is of the current generation and was built
\* from the entry of its name in the config loaded last.
C7_ReloadReplacesAll ==
    /\ supPc \in {"load", "listing"} => NoTasks
    /\ supPc = "select" =>
          \A n \in Names :
             mgr[n].pc # "none" =>
                /\ mgr[n].epoch = epoch
                /\ n \in DOMAIN config.dials
                /\ mgr[n].config = config.dials[n]
                /\ mgr[n].max_elapsed_time = config.max_elapsed_time

\* after a reload, a manager of the new generation has pushed a value and
\* waits for its next tick
C7_Witness ==
    /\ supPc = "select"
    /\ epoch = 1
    /\ \E n \in Names : mgr[n].pc = "tick" /\ mgr[n].epoch = 1

\* C8 as stated: once a task has completed with an error, the next step of
\* the supervisor returns that error.
C8_TaskErrorAlwaysReturned ==
    [][((\E n \in Names : mgr[n].pc = "failed") /\ supPc = "select" /\ supPc' # "select")
          => exit' = "a dial manager task failed"]_vars

\* C8, amended: a task that completed with an error leaves the JoinSet only
\* when run_daemon returns its error, or when a Reload or Shutdown signal
\* that was pending at that moment is taken instead; and tasks are spawned
\* by nothing but the spawn procedure of startup and reload.
C8_TaskErrorReturnedUnlessSignal ==
    [][\A n \in Names :
          /\ (mgr[n].pc = "failed" /\ mgr'[n].pc # "failed") =>
                \/ supPc' = "exited" /\ exit' = "a dial manager task failed"
                \/ supPc' \in {"exited", "load"} /\ pending' # pending
          /\ (mgr[n].pc # "start" /\ mgr'[n].pc = "start") => supPc = "listing"]_vars

C8_Witness ==
    /\ supPc = "exited"
    /\ exit = "a dial manager task failed"

\* C9: the step that takes SIGINT, SIGTERM or SIGQUIT ends run_daemon with
\* Ok and leaves no task; nothing happens after run_daemon has returned.
C9_ShutdownIsClean ==
    [][/\ (supPc = "select" /\ pending' # pending
           /\ (pending \ pending') \subseteq {"SIGINT", "SIGTERM", "SIGQUIT"}
           /\ pending' \subseteq pending)
             => (supPc' = "exited" /\ exit' = "ok" /\ \A n \in Names : mgr'[n] = NoTask)
       /\ supPc = "exited" => UNCHANGED vars]_vars

C9_Witness ==
    /\ supPc = "exited"
    /\ exit = "ok"

\* C10: whenever a manager is back at the top of its loop, it has passed an
\* await since it was there last.
C10_EveryIterationSuspends ==
    \A n \in Names : mgr[n].pc = "loop_top" => mgr[n].susp

\* the DialManagers of a retry run
RetryTaskOf(m) == IF call.fn = "retry" THEN call.task[m] ELSE RetryTask(CHOOSE retries \in RetryConfigs : TRUE)

\* C11: an invocation that fails with an error classified permanent is the
\* last of its call: retry() has returned that error without sleeping on it,
\* after one invocation more than the transient failures before it (exactly
\* one invocation when it is the first failure).
C11_PermanentReturnsAtOnce ==
    \A m \in RetryTasks :
        LET t == RetryTaskOf(m)
        IN t.class = "permanent" =>
              /\ t.pc = "returned"
              /\ t.result = "Err"
              /\ t.error # "none"
              /\ t.attempts = Len(t.sleeps) + 1

\* the first invocation failed permanently under a config with jitter and a
\* time budget
C11_Witness ==
    /\ call.fn = "retry"
    /\ call.retries.jitter.n > 0
    /\ \E m \in RetryTasks :
          /\ call.task[m].class = "permanent"
          /\ call.task[m].attempts = 1
          /\ call.task[m].result = "Err"

\* the interval a transient failure was, or would have been, slept on fits
\* into the time budget
WithinBudget(t) ==
    \/ ~t.eb.max_elapsed_time.some
    \/ /\ t.elapsed <= t.eb.max_elapsed_time.v
       /\ t.elapsed + t.sleeping <= t.eb.max_elapsed_time.v

\* C12: a transient failure within the time budget is slept on and followed
\* by another invocation, so a call that returns Ok after n transient
\* failures has invoked the operation n + 1 times.
C12_SuccessAfterNPlusOne ==
    \A m \in RetryTasks :
        LET t == RetryTaskOf(m)
        IN /\ (t.class = "transient" /\ WithinBudget(t)) =>
                 (t.pc = "sleep" /\ t.attempts = Len(t.sleeps))
           /\ t.pc = "attempt" => t.attempts = Len(t.sleeps) + 1
           /\ t.result = "Ok" => (t.pc = "returned" /\ t.attempts = Len(t.sleeps) + 1)

\* Ok at the third invocation, after two transient failures
C12_Witness ==
    /\ call.fn = "retry"
    /\ \E m \in RetryTasks :
          /\ call.task[m].result = "Ok"
          /\ Len(call.task[m].sleeps) = 2
          /\ call.task[m].attempts = 3

\* C13: retry() sleeps only on an interval that fits into max_elapsed_time,
\* and returns a transient error only when max_elapsed_time is configured
\* and has run out or would run out during the next sleep; without
\* max_elapsed_time a transient error is never returned.
C13_BudgetStopsRetrying ==
    \A m \in RetryTasks :
        LET t == RetryTaskOf(m)
        IN /\ t.pc = "sleep" => WithinBudget(t)
           /\ (t.pc = "returned" /\ t.result = "Err" /\ t.class = "transient") =>
                 /\ call.retries.max_elapsed_time.some
                 /\ ~WithinBudget(t)
                 /\ t.error \in ApiErrors

\* a transient error returned because the budget ran out, after a retry
C13_Witness ==
    /\ call.fn = "retry"
    /\ \E m \in RetryTasks :
          /\ call.task[m].pc = "returned"
          /\ call.task[m].class = "transient"
          /\ call.task[m].sleeps # <<>>

\* previous interval times the configured multiplier, capped at max_backoff
NextInterval(retries, interval) ==
    LET scaled == (interval * retries.multiplier.n) \div retries.multiplier.d
    IN IF scaled > retries.max_backoff THEN retries.max_backoff ELSE scaled

\* C14: the intervals slept on (before jitter) start at initial_backoff, and
\* each is the one before it times the configured multiplier, capped at
\* max_backoff.
C14_IntervalsFollowMultiplier ==
    \A m \in RetryTasks :
        LET t == RetryTaskOf(m)
        IN \A i \in 1..Len(t.sleeps) :
              /\ t.sleeps[i] <= call.retries.max_backoff
              /\ i = 1 => t.sleeps[i] = call.retries.initial_backoff
              /\ i > 1 => t.sleeps[i] = NextInterval(call.retries, t.sleeps[i - 1])

\* C15: BuildRequest, BuildUrl, InvalidBacklight and InvalidValue are handled
\* as permanent, Request, ServerHttp, Server and DecodeJson as transient.
C15_Classification ==
    \A m \in RetryTasks :
        LET t == RetryTaskOf(m)
        IN t.error # "none" =>
              /\ t.class = "permanent" <=>
                    t.error \in {"BuildRequest", "BuildUrl", "InvalidBacklight", "InvalidValue"}
              /\ t.class = "transient" <=>
                    t.error \in {"Request", "ServerHttp", "Server", "DecodeJson"}

C15_Witness ==
    /\ call.fn = "retry"
    /\ call.task["CPU Load"].error = "InvalidValue"
    /\ call.task["CPU Load"].class = "permanent"
    /\ call.task["Memory Usage"].error = "DecodeJson"
    /\ call.task["Memory Usage"].class = "transient"

\* C16: in every retried call the first interval is initial_backoff and each
\* later one is got from the one before it alone, whatever earlier calls of
\* the same DialManager and the calls of the other DialManager slept on.
C16_FreshBackoffPerCall ==
    \A m \in RetryTasks :
        LET t == RetryTaskOf(m)
        IN /\ t.backoff = backoff_builder(call.retries)
           /\ \A i \in 1..Len(t.sleeps) :
                 /\ i = 1 => t.sleeps[i] = call.retries.initial_backoff
                 /\ i > 1 => t.sleeps[i] =
                       increment_current_interval(
                           [t.eb EXCEPT !.current_interval = t.sleeps[i - 1]])
           /\ t.pc = "attempt" /\ t.attempts = 1 =>
                 t.eb.current_interval = call.retries.initial_backoff

\* a later call of a DialManager sleeps on its first interval although its
\* earlier call and the other DialManager have slept on longer ones
C16_Witness ==
    /\ call.fn = "retry"
    /\ call.retries.initial_backoff < call.retries.max_backoff
    /\ \E m \in RetryTasks, o \in RetryTasks :
          /\ m # o
          /\ call.task[m].prior
          /\ call.task[m].pc = "sleep"
          /\ Len(call.task[m].sleeps) = 1
          /\ Len(call.task[o].sleeps) >= 2
          /\ call.task[o].eb.current_interval > call.retries.initial_backoff

\* the configuration calls of a DialManager with config `cfg`, in the order
\* in which they are to be made
ConfigOrder(cfg) ==
    <<"set_name">>
    \o (IF cfg.dial_easing THEN <<"set_dial_easing">> ELSE <<>>)
    \o (IF cfg.backlight_easing THEN <<"set_backlight_easing">> ELSE <<>>)
    \o <<"set_backlight">>
    \o (IF img_file(cfg.metric) THEN <<"set_image">> ELSE <<>>)

\* the task is in a configuration call, or in the backoff sleep of one
Configuring(t) == t.pc \in {"call", "backoff"} /\ t.op \in ConfigOps

\* the task is in its polling loop
InLoop(t) ==
    \/ t.pc \in {"loop_top", "sample", "tick", "tick_cpu", "wait_changed"}
    \/ t.pc \in {"call", "backoff"} /\ t.op \in {"set", "resume_backlight"}

\* C17: a task starts with the first call of ConfigOrder; it starts another
\* configuration call only in the step in which the response to the call
\* before it in ConfigOrder arrives; it enters its polling loop, where the
\* values are pushed, only in the step in which the response to the last call
\* of ConfigOrder arrives.
C17_ConfigurationInOrder ==
    [][\A n \in Names :
          LET t == mgr[n]
              u == mgr'[n]
              order == ConfigOrder(u.config)
          IN /\ (Configuring(u) /\ ~(Configuring(t) /\ t.op = u.op)) =>
                   \/ t.pc = "start" /\ u.op = order[1]
                   \/ /\ Configuring(t)
                      /\ t.pc = "call"
                      /\ \E i \in 1..(Len(order) - 1) : order[i] = t.op /\ order[i + 1] = u.op
             /\ (InLoop(u) /\ ~InLoop(t)) =>
                   (Configuring(t) /\ t.pc = "call" /\ t.op = order[Len(order)])
             /\ (u.pc = "call" /\ u.op = "set") => InLoop(t)]_vars

\* a task with both easings configured pushes a value
C17_Witness ==
    \E n \in Names :
        /\ mgr[n].config.dial_easing
        /\ mgr[n].config.backlight_easing
        /\ mgr[n].pc = "call"
        /\ mgr[n].op = "set"

\* C18: a task whose configuration call got a permanent error has returned
\* an error, and a task that has returned takes no further step: it stays as
\* it is until the supervisor removes it from the JoinSet.
C18_PermanentConfigFailureEndsTask ==
    [][\A n \in Names :
          /\ (mgr'[n].last.op \in ConfigOps /\ mgr'[n].last.class = "permanent") =>
                (mgr'[n].pc = "failed" /\ mgr'[n].error = "retry")
          /\ mgr[n].pc = "failed" => (mgr'[n] = mgr[n] \/ mgr'[n] = NoTask)]_vars

\* set_backlight_easing failed permanently after earlier steps had succeeded
C18_Witness ==
    /\ trace
    /\ \E n \in Names :
          /\ mgr[n].last = [op |-> "set_backlight_easing", class |-> "permanent",
                            returned |-> TRUE]
          /\ mgr[n].pc = "failed"

\* C19: a task whose set-value call came back from retry() with an error
\* (permanent, or transient with the time budget used up) has returned that
\* error, and its result stays in the JoinSet until a step of the
\* supervisor's select loop takes it out.
C19_PushFailureEndsTask ==
    [][\A n \in Names :
          /\ (mgr'[n].last.op = "set" /\ mgr'[n].last.class # "Ok"
              /\ mgr'[n].last.returned) =>
                (mgr'[n].pc = "failed" /\ mgr'[n].error = "retry")
          /\ (mgr[n].pc = "failed" /\ mgr[n].last.op = "set" /\ mgr'[n] # mgr[n]) =>
                (supPc = "select" /\ supPc' \in {"load", "exited"})]_vars

\* a push failed with a transient error when the time budget was used up,
\* and the supervisor is in its select loop
C19_Witness ==
    /\ trace
    /\ supPc = "select"
    /\ \E n \in Names :
          /\ mgr[n].last = [op |-> "set", class |-> "transient", returned |-> TRUE]
          /\ mgr[n].pc = "failed"

\* C19 as stated: the result of a task whose push failed leaves the JoinSet
\* only when run_daemon returns the task's error.
C19_PushErrorAlwaysReturned ==
    [][\A n \in Names :
          (mgr[n].pc = "failed" /\ mgr[n].last.op = "set" /\ mgr'[n] # mgr[n]) =>
             (supPc' = "exited" /\ exit' = "a dial manager task failed")]_vars

\* C20: run_daemon does not return the error of a listing that failed with
\* an error backoff_error classes as transient.
C20_TransientListingErrorNotFatal ==
    ~ /\ supPc = "exited"
      /\ exit = "list_dials failed"
      /\ listed.error \in ListErrorKinds
      /\ backoff_error(listed.error) = "transient"

\* C21: the step in which a sensor read fails leaves the task alive with no
\* request sent and waiting for its interval tick (or the read was the
\* load.done() that follows the tick of the CPU load arm).
C21_SensorFailureWaitsForTick ==
    [][\A n \in Names :
          mgr'[n].streak > mgr[n].streak =>
             /\ Live(mgr'[n])
             /\ mgr'[n].pc \notin {"call", "backoff"}
             /\ mgr[n].pc = "tick_cpu" \/ mgr'[n].pc \in {"tick", "tick_cpu"}]_vars

\* C22: one set-value call per interval tick. A first attempt of a push is
\* issued from the tick inside sampling for CPU load and straight from the
\* sensor read for the other metrics; a push that returned Ok is followed by
\* the top of the loop for CPU load and by the interval tick for the others;
\* the tick after the push is entered only from such a push, and the tick
\* inside sampling only by CPU load.
C22_OnePushPerTick ==
    [][\A n \in Names :
          LET cpuLoad == mgr[n].config.metric = "CpuLoad"
              FirstAttempt ==
                  /\ mgr[n].pc \notin {"call", "backoff"}
                  /\ mgr'[n].pc = "call"
                  /\ mgr'[n].op = "set"
              PushReturnedOk ==
                  /\ mgr[n].pc = "call"
                  /\ mgr[n].op = "set"
                  /\ mgr'[n].pc \notin {"call", "backoff", "failed", "start", "none"}
          IN /\ FirstAttempt =>
                  mgr[n].pc = (IF cpuLoad THEN "tick_cpu" ELSE "sample")
             /\ PushReturnedOk =>
                  mgr'[n].pc = (IF cpuLoad THEN "loop_top" ELSE "tick")
             /\ (mgr'[n].pc = "tick" /\ mgr[n].pc # "tick") =>
                  ~cpuLoad /\ mgr[n].pc = "call" /\ mgr[n].op = "set"
             /\ (mgr'[n].pc = "tick_cpu" /\ mgr[n].pc # "tick_cpu") =>
                  mgr'[n].config.metric = "CpuLoad" /\ mgr[n].pc = "sample"
             /\ (mgr[n].pc = "tick" /\ mgr'[n].pc \notin {"tick", "start", "none"}) =>
                  mgr'[n].pc = "loop_top"]_vars
\* a CPU load manager whose last push returned Ok is at the tick inside
\* sampling again
C22_Witness ==
    \E n \in Names :
       /\ mgr[n].config.metric = "CpuLoad"
       /\ mgr[n].pushed /\ mgr[n].streak = 0
       /\ mgr[n].pc = "tick_cpu"

\* C23: the value of the watch channel changes only in a step of the hotplug
\* task, a step that moves neither the supervisor nor any Dial Manager; the
\* channel is created holding true, and without a hotplug task it holds true
\* in every state.
C23_OnlyHotplugWritesSignal ==
    [][/\ running' # running =>
            /\ hotplug \in {"listening", "restarting"}
            /\ supPc' = supPc /\ exit' = exit /\ config' = config
            /\ pending' = pending /\ epoch' = epoch
            /\ \A n \in Names : mgr'[n].pc = mgr[n].pc /\ mgr'[n].op = mgr[n].op
       /\ supPc = "start" => running
       /\ hotplug = "off" => running /\ running' /\ hotplug' = "off"]_vars
\* the hotplug task has written false and a reload has been taken since:
\* the new tasks start under the value the hotplug task wrote
C23_Witness ==
    /\ ~running
    /\ hotplug = "listening"
    /\ \E n \in Names : mgr[n].pc = "start" /\ mgr[n].epoch = 1

\* C24: a matching Remove event writes false; once the restart attempted
\* for a matching Add or Change event is over, the watch channel holds true.
C24_AttachWritesTrue ==
    [][/\ (hotplug = "listening" /\ hotplug' = "listening" /\ running' # running)
            => ~running'
       /\ (hotplug = "restarting" /\ hotplug' # "restarting") => running']_vars

\* C25: for memory, swap and disk usage with total > 0 and 0 <= free <= total
\* the arm pushes 100 - floor(free * 100 / total), a value in 0..100, and
\* neither panics nor returns an error.
C25_PercentUsedFormula ==
    (call.fn = "sample" /\ call.returned /\ call.sensor = "Ok"
     /\ call.metric \in IntegerMetrics) =>
        /\ call.result.kind = "push"
        /\ call.result.value = 100 - ((call.free * 100) \div call.total)
        /\ call.result.value \in 0..100

\* C26: Percent::new(v) is Ok for v in 0..100 and the Percent converts back
\* to v; it is Err(PercentError) for v in 101..255; no Percent that any call
\* returns holds a value outside 0..100.
C26_PercentRange ==
    /\ (call.fn \in {"Percent::new", "try_from"} /\ call.returned) =>
          /\ call.value \in 0..100 =>
                call.result.ok /\ u8_from(call.result.percent) = call.value
          /\ call.value \in 101..255 =>
                ~call.result.ok /\ call.result.error = "PercentError"
          /\ call.result.ok => u8_from(call.result.percent) \in 0..100
    /\ (call.fn = "sample" /\ call.returned /\ call.result.kind = "push") =>
          call.result.value \in 0..100
\* Percent::new(100) has returned Ok
C26_Witness ==
    /\ call.fn = "Percent::new" /\ call.returned
    /\ call.value = 100
    /\ call.result.ok

\* C30: a reading whose `as u8` conversion is above 100 is never pushed: the
\* arm returns the PercentError from run(); every value pushed is in 0..100.
C30_OutOfRangeNeverPushed ==
    (call.fn = "sample" /\ call.returned /\ call.sensor = "Ok") =>
        /\ call.result.kind = "push" => call.result.value \in 0..100
        /\ (call.metric \in FloatMetrics /\ float_as_u8(call.reading) > 100) =>
              call.result = ReturnErr("PercentError")
        /\ (call.metric \in FloatMetrics /\ float_as_u8(call.reading) <= 100) =>
              call.result = Push(float_as_u8(call.reading))
\* a CPU temperature of 101.5 degrees has ended the arm with the error
C30_Witness ==
    /\ call.fn = "sample" /\ call.returned
    /\ call.metric = "CpuTemp" /\ call.reading = 1015
    /\ call.result.kind = "return"

\* C27: from_vec returns Ok for no errors, the error itself for one error,
\* and for two or more a single MultiError holding every one of them in
\* order, under the message given.
C27_FromVecAggregates ==
    (call.fn \in {"from_vec", "dialctl::from_vec"} /\ call.returned) =>
        /\ Len(call.errors) = 0 => call.result = VecOk
        /\ Len(call.errors) = 1 => call.result = VecErr(call.errors[1])
        /\ Len(call.errors) >= 2 =>
              /\ call.result.kind = "multi"
              /\ ~call.result.ok
              /\ call.result.multi.errors = call.errors
              /\ call.result.multi.msg = call.msg
\* from_vec has returned for three errors that are not all the same
C27_Witness ==
    /\ call.fn = "from_vec" /\ call.returned
    /\ call.errors = <<"Request", "Server", "Request">>
    /\ call.result.kind = "multi"

\* C29: an accumulator made by with_max_errors(k), k >= 1, holds fewer than
\* k errors between calls, namely those pushed since its creation, the last
\* clear or the last Err; push_error returns Err exactly when its error is
\* the k-th of them, the Err carries all k in order, and the accumulator is
\* empty after an Err and after clear.
C29_BoundedAccumulator ==
    call.fn = "MultiError" =>
        LET k == call.self.max_errors.v
            last == call.last
        IN /\ call.self.max_errors.some /\ k >= 1
           /\ Len(call.self.errors) < k
           /\ call.self.errors = call.since
           /\ last.op = "push_error" =>
                 /\ last.ok <=> Len(last.before) + 1 < k
                 /\ last.ok => call.self.errors = Append(last.before, last.arg)
                 /\ ~last.ok =>
                       /\ last.err.errors = Append(last.before, last.arg)
                       /\ Len(last.err.errors) = k
                       /\ last.err.msg = call.self.msg
                       /\ call.self.errors = <<>>
           /\ last.op = "clear" => call.self.errors = <<>>
\* with max_errors = 3, a push later than the third call has returned Err
\* with the three errors pushed since the accumulator was last emptied
C29_Witness ==
    /\ call.fn = "MultiError"
    /\ call.self.max_errors.v = 3
    /\ call.calls > 3
    /\ call.last.op = "push_error" /\ ~call.last.ok
    /\ call.last.err.errors = <<"Request", "Server", "Server">>

C31_OnlyDialHubEvents ==
    [][running' # running =>
          /\ call'.event.vendor = DIAL_HUB_USB_VENDOR_ID
          /\ call'.event.model = DIAL_HUB_USB_MODEL_ID]_vars

C33_OneManagerPerDevice ==
    /\ \A n, m \in Names :
          (n # m /\ Live(mgr[n]) /\ Live(mgr[m])) =>
             mgr[n].config.index # mgr[m].config.index
    /\ supPc \in {"start", "load", "listing"} => \A n \in Names : ~Live(mgr[n])
\* after a reload, under a config whose two entries share index 2 and with
\* the dial of index 2 listed, one of the two entries has a live manager
C33_Witness ==
    /\ supPc = "select"
    /\ epoch = 1
    /\ DOMAIN config.dials = {"Memory Usage", "Swap Usage"}
    /\ 2 \in listed.dials
    /\ Cardinality({n \in Names : Live(mgr[n]) /\ mgr[n].config.index = 2}) = 1

\* C34: after the shutdown of a reload (as at startup) the supervisor's next
\* steps either load a config and spawn a manager for at least one of its
\* entries, or return the error of the step that failed: a Config::load that
\* fails, a listing that fails or a spawn that matches no entry ends
\* run_daemon with that error and with no task left.
C34_FailedReloadExits ==
    [][/\ (supPc = "load" /\ supPc' # "load") =>
             \/ supPc' = "listing" /\ config' \in disk /\ exit' = "running"
             \/ supPc' = "exited" /\ exit' = "load failed" /\ NoTasks'
       /\ (supPc = "listing" /\ supPc' # "listing") =>
             \/ /\ supPc' = "select"
                /\ exit' = "running"
                /\ listed'.ok
                /\ \E n \in DOMAIN config.dials :
                      /\ config.dials[n].index \in listed'.dials
                      /\ mgr'[n].pc = "start"
                      /\ mgr'[n].config = config.dials[n]
             \/ /\ supPc' = "exited"
                /\ NoTasks'
                /\ \/ ~listed'.ok /\ exit' = "list_dials failed"
                   \/ /\ listed'.ok
                      /\ \A n \in DOMAIN config.dials :
                            config.dials[n].index \notin listed'.dials
                      /\ exit' = "no dials are connected!"
       /\ (supPc \in {"load", "listing"}) => NoTasks]_vars
\* a reload has ended run_daemon: its listing failed
C34_Witness ==
    /\ supPc = "exited"
    /\ epoch = 1
    /\ ~listed.ok
    /\ exit = "list_dials failed"
    /\ NoTasks

\* C35: whatever the watch channel holds, a step of a task that has not
\* finished configuring leads to its first or next configuration call, to
\* the backoff sleep of one, to the task's failure or to the top of the
\* loop, never to the wait for the channel, to a sample or to a push; the
\* wait for the channel is entered only from the top of the loop, and a
\* step from the top of the loop while the channel holds false leads there
\* (or to the task's failure once the sender is gone).
C35_ConfigurationIgnoresSignal ==
    [][\A n \in Names :
          LET t == mgr[n]
              u == mgr'[n]
              moved == u.pc # t.pc \/ u.op # t.op
          IN /\ (moved /\ (t.pc = "start" \/ Configuring(t))
                 /\ u.pc \notin {"none", "start"}) =>
                   Configuring(u) \/ u.pc \in {"failed", "loop_top"}
             /\ (u.pc = "wait_changed" /\ t.pc # "wait_changed") => t.pc = "loop_top"
             /\ (t.pc = "loop_top" /\ ~running /\ moved
                 /\ u.pc \notin {"none", "start"}) =>
                   u.pc \in {"wait_changed", "failed"}]_vars
\* while the channel holds false, a task whose last response was the Ok to
\* set_image, the last call of its configuration, waits for the channel
C35_Witness ==
    /\ ~running
    /\ \E n \in Names :
          /\ mgr[n].pc = "wait_changed"
          /\ mgr[n].last.op = "set_image"
          /\ mgr[n].last.class = "Ok"

\* C36 as stated: once the sender is gone with the channel holding false,
\* a paused manager ends with "watch channel closed", and the step in which
\* that result leaves the task set is run_daemon returning the task's error;
\* without a hotplug task the sender is never dropped.
C36_ClosedChannelEndsDaemon ==
    [][LET ChannelClosed(t) == t.pc = "failed" /\ t.error = "watch channel closed"
       IN /\ hotplug = "off" => txAlive /\ txAlive'
          /\ \A n \in Names :
                (ChannelClosed(mgr[n]) /\ ~ChannelClosed(mgr'[n])) =>
                   supPc' = "exited" /\ exit' = "a dial manager task failed"]_vars

\* C36, amended: once the sender is gone with the channel holding false, the
\* step of a manager that waits for the channel, or that finds false at the
\* top of its loop, ends the task with "watch channel closed"; no task ends
\* with that error in any other way, and none does without a hotplug task,
\* whose sender is then never dropped.  The task's result leaves the task set
\* when run_daemon returns its error, or when a Reload or Shutdown signal
\* pending at that moment is taken instead.
C36_ClosedChannelEndsTask ==
    [][LET ChannelClosed(t) == t.pc = "failed" /\ t.error = "watch channel closed"
       IN /\ hotplug = "off" =>
                /\ txAlive /\ txAlive'
                /\ \A n \in Names : ~ChannelClosed(mgr'[n])
          /\ \A n \in Names :
                LET t == mgr[n]
                    u == mgr'[n]
                    stepped == (u.pc # t.pc \/ u.op # t.op) /\ u.pc \notin {"none", "start"}
                IN /\ (stepped /\ t.pc \in {"wait_changed", "loop_top"}
                       /\ ~running /\ ~txAlive) => ChannelClosed(u)
                   /\ (ChannelClosed(u) /\ ~ChannelClosed(t)) =>
                         /\ t.pc \in {"wait_changed", "loop_top"}
                         /\ ~running /\ ~txAlive /\ hotplug = "ended"
                   /\ (ChannelClosed(t) /\ ~ChannelClosed(u)) =>
                         \/ supPc' = "exited" /\ exit' = "a dial manager task failed"
                         \/ supPc' \in {"exited", "load"} /\ pending' # pending]_vars
\* the hotplug task has ended with the channel holding false, and a manager
\* has ended with the error of the closed channel
C36_Witness ==
    /\ hotplug = "ended"
    /\ ~running
    /\ \E n \in Names :
          mgr[n].pc = "failed" /\ mgr[n].error = "watch channel closed"

\* C37: between the step that takes a Reload signal and the return of its
\* spawn procedure the supervisor takes no signal, counts no further reload
\* and returns neither Ok nor the error of a task: a signal delivered in
\* the meantime stays pending, and signals are taken only in the select loop.
C37_ReloadIsAtomic ==
    [][/\ supPc \in {"load", "listing"} =>
             /\ pending \subseteq pending'
             /\ epoch' = epoch
             /\ supPc' \in {"load", "listing", "select", "exited"}
             /\ supPc' = "exited" =>
                   exit' \in {"load failed", "list_dials failed", "no dials are connected!"}
             /\ supPc' = "select" => supPc = "listing"
       /\ ~(pending \subseteq pending') => supPc = "select"]_vars
\* a reload is at its listing with a SIGINT delivered since it began
C37_Witness ==
    /\ supPc = "listing"
    /\ epoch = 1
    /\ "SIGINT" \in pending

====
